---- MODULE Spec2Model ----
(***************************************************************************)
(* A model of typedoc-plugin-mermaid (src/src/plugin.ts).                   *)
(*                                                                         *)
(* A JavaScript string is a sequence of tokens.  A token is either one     *)
(* character of user text or one literal piece of the plugin's templates;  *)
(* the newline and the closing body tag are always tokens of their own, so *)
(* that String.split('\n') and the regular expression /<\/body>/ see every *)
(* occurrence.  An optional field (comment?, tags?, contents?) is the      *)
(* empty tuple when it is undefined and a one-element tuple otherwise.     *)
(***************************************************************************)
EXTENDS Integers, Sequences, FiniteSets, TLC

\* ------------------------------------------------------------------ bounds

\* Longest tag text the text specification draws.
MaxTextLen == 4
\* Longest page the page specification draws.
MaxHtmlLen == 3
\* How often the page specification applies convertPageContents to its own output.
MaxApplications == 2
\* Reflections of the project, and the longest tag list of a comment.
NumReflections == 2
MaxTags == 2

\* ------------------------------------------------------- optional values

Undefined == <<>>

Defined(v) == <<v>>

IsDefined(o) == o # <<>>

Value(o) == o[1]

\* ------------------------------------------------------------ strings

NL == "\n"

BodyClose == "</body>"

\* The sequences over S of length at most n.
SeqsUpTo(S, n) == UNION {[1..k -> S] : k \in 0..n}

\* String.prototype.split(sep) with a one-character separator: scan the
\* string, closing the current piece at every separator.
RECURSIVE SplitFrom(_, _, _, _, _)
SplitFrom(s, sep, i, cur, acc) ==
    IF i > Len(s) THEN Append(acc, cur)
    ELSE IF s[i] = sep THEN SplitFrom(s, sep, i + 1, <<>>, Append(acc, cur))
    ELSE SplitFrom(s, sep, i + 1, Append(cur, s[i]), acc)

split(s, sep) == SplitFrom(s, sep, 1, <<>>, <<>>)

\* Array.prototype.join(sep).
RECURSIVE join(_, _)
join(texts, sep) ==
    IF texts = <<>> THEN <<>>
    ELSE IF Len(texts) = 1 THEN texts[1]
    ELSE texts[1] \o <<sep>> \o join(Tail(texts), sep)

\* Array.prototype.shift(): the first element (undefined, printed
\* "undefined" by a template literal, for an empty array) and the rest.
shiftHead(texts) == IF texts = <<>> THEN <<"undefined">> ELSE Head(texts)

shiftRest(texts) == IF texts = <<>> THEN <<>> ELSE Tail(texts)

\* ---------------------------------------------- convertCommentTagText

H4 == "#### "

DivOpen == " <div class=\"mermaid\">"

DivClose == "</div>"

\* A plausible slip: the body is the second line only.
convertCommentTagText_secondLine(tagText) ==
    LET texts == split(tagText, NL)
        title == shiftHead(texts)
        rest == shiftRest(texts)
        mermaid == IF rest = <<>> THEN <<>> ELSE rest[1]
    IN <<H4>> \o title \o <<" ", NL, NL, DivOpen>> \o mermaid \o <<DivClose>>

convertCommentTagText(tagText) ==
    LET texts == split(tagText, NL)
        title == shiftHead(texts)
        rest == shiftRest(texts)
        mermaid == join(rest, NL)
    IN <<H4>> \o title \o <<" ", NL, NL, DivOpen>> \o mermaid \o <<DivClose>>

\* ------------------------------------------------- convertPageContents

LoaderOpen == "\n      <script\n        src=\"https://unpkg.com/mermaid@"

LoaderClose == "/dist/mermaid.min.js\"\n      ></script>"

InitScript ==
    "\n      <script>\n      mermaid.initialize({\n        startOnLoad: true,\n      });\n      </script>\n      "

FragmentTail == "\n    "

DefaultVersion == <<"7.1.2">>

\* The template literal of the getter: the version is interpolated as it is.
customScriptsAndBodyClosinngTag(version) ==
    <<LoaderOpen>> \o version \o <<LoaderClose, InitScript, BodyClose, FragmentTail>>

\* RegExp.prototype.test for /<\/body>/: some position holds the tag.
BODY_CLOSINNG_TAG_test(contents) ==
    \E i \in 1..Len(contents) : contents[i] = BodyClose

\* The position of the first match (the regular expression has no g flag).
BODY_CLOSINNG_TAG_index(contents) ==
    CHOOSE i \in 1..Len(contents) :
        /\ contents[i] = BodyClose
        /\ \A j \in 1..(i - 1) : contents[j] # BodyClose

\* The characters of a replacement pattern after the dollar sign.  The
\* grave accent opens a quotation in the module's lexical grammar, so the
\* token of that character is written by its code point.
Backquote == "U+0060"

Quote == "'"

\* String.prototype.replace with a string replacement expands the patterns
\* of the replacement (ECMAScript GetSubstitution): $$ is a dollar sign, $&
\* the match, $ with a backquote the text before the match, $ with a quote
\* the text after it; the regular expression has no capture group, so
\* every other $ stays.
RECURSIVE GetSubstitution(_, _, _, _)
GetSubstitution(replacement, matched, before, after) ==
    IF replacement = <<>> THEN <<>>
    ELSE IF Head(replacement) = "$" /\ Len(replacement) >= 2
              /\ replacement[2] \in {"$", "&", Backquote, Quote}
    THEN LET rest == GetSubstitution(SubSeq(replacement, 3, Len(replacement)),
                                     matched, before, after)
         IN CASE replacement[2] = "$" -> <<"$">> \o rest
              [] replacement[2] = "&" -> matched \o rest
              [] replacement[2] = Backquote -> before \o rest
              [] OTHER -> after \o rest
    ELSE <<Head(replacement)>>
         \o GetSubstitution(Tail(replacement), matched, before, after)

\* contents.replace(BODY_CLOSINNG_TAG, replacement), called on a match.
replace(contents, replacement) ==
    LET i == BODY_CLOSINNG_TAG_index(contents)
        before == SubSeq(contents, 1, i - 1)
        after == SubSeq(contents, i + 1, Len(contents))
    IN before \o GetSubstitution(replacement, <<BodyClose>>, before, after) \o after

\* A plausible slip: the fragment is appended whether or not the page has
\* a closing body tag.
convertPageContents_always(contents, version) ==
    IF BODY_CLOSINNG_TAG_test(contents)
    THEN replace(contents, customScriptsAndBodyClosinngTag(version))
    ELSE contents \o customScriptsAndBodyClosinngTag(version)

convertPageContents(contents, version) ==
    IF BODY_CLOSINNG_TAG_test(contents)
    THEN replace(contents, customScriptsAndBodyClosinngTag(version))
    ELSE contents

\* ------------------------------------------------------ the class diagram

\* The access prefix of a member, from its flags.
accessOf(r) ==
    IF r.flags = "private" THEN <<"- ">>
    ELSE IF r.flags = "protected" THEN <<"# ">>
    ELSE IF r.flags = "public" THEN <<"+ ">>
    ELSE <<>>

\* The line of one member: a method, a property, or nothing.
memberLine(reflection, r) ==
    IF r.kind = "Method"
    THEN accessOf(r) \o <<" ", reflection.name, " : ", r.name, "() ">>
    ELSE IF r.kind = "Property"
    THEN accessOf(r) \o <<" ", reflection.name, " : ">>
         \o (IF IsDefined(r.type) THEN <<Value(r.type)>> ELSE <<>>)
         \o <<" ", r.name, " ">>
    ELSE <<>>

RECURSIVE memberLines(_, _)
memberLines(reflection, rs) ==
    IF rs = <<>> THEN <<>>
    ELSE <<memberLine(reflection, Head(rs))>> \o memberLines(reflection, Tail(rs))

isMethodOrProperty(r) == r.kind \in {"Method", "Property"}

convertDeclarationReflectionToMermaidClassTiagram(reflection) ==
    IF IsDefined(reflection.children)
    THEN join(memberLines(reflection,
                          SelectSeq(Value(reflection.children), isMethodOrProperty)),
              NL)
    ELSE <<>>

drowMermaidClassDiagram(reflection) ==
    LET type == IF reflection.kind = "Class" THEN "Clsss" ELSE "Interface"
        content == convertDeclarationReflectionToMermaidClassTiagram(reflection)
    IN <<"classDiagram", NL, "      ", reflection.name, " .. ", type, NL, "      ">>
       \o content

createMermaidTagText(title, mermaidGraphDiagram) ==
    title \o <<NL>> \o mermaidGraphDiagram

\* ----------------------------------------------------------- mermaidTags

filterComment(comment) == IsDefined(comment)

filterCommentTags(tags) == IsDefined(tags)

\* A plausible slip: every tag counts as a mermaid tag.
isMermaidCommentTag_any(tag) == tag.tagName = tag.tagName

isMermaidCommentTag(tag) == tag.tagName = "mermaid"

\* Object.values of a table keyed by reflection id: the ids, ascending.
RECURSIVE idsUpTo(_)
idsUpTo(n) == IF n = 0 THEN <<>> ELSE Append(idsUpTo(n - 1), n)

values(table) == idsUpTo(Cardinality(DOMAIN table))

\* A tag of the graph is referred to by its reflection and its place in the
\* tag list of that reflection's comment.
tagRefs(id, tags) == [i \in 1..Len(tags) |-> [reflection |-> id, index |-> i]]

tagAt(proj, ref) ==
    Value(Value(proj.reflections[ref.reflection].comment).tags)[ref.index]

\* .reduce((a, b) => a.concat(b), []) over the tag lists that are left.
RECURSIVE concatTags(_, _)
concatTags(proj, ids) ==
    IF ids = <<>> THEN <<>>
    ELSE concatTags(proj, SubSeq(ids, 1, Len(ids) - 1))
         \o tagRefs(ids[Len(ids)],
                    Value(Value(proj.reflections[ids[Len(ids)]].comment).tags))

\* A plausible slip: the reduction keeps the last list instead of
\* concatenating.
mermaidTags_lastOnly(proj) ==
    LET hasComment(id) == filterComment(proj.reflections[id].comment)
        hasTags(id) == filterCommentTags(Value(proj.reflections[id].comment).tags)
        isMermaid(ref) == isMermaidCommentTag(tagAt(proj, ref))
        ids == SelectSeq(SelectSeq(values(proj.reflections), hasComment), hasTags)
    IN SelectSeq(IF ids = <<>> THEN <<>>
                 ELSE concatTags(proj, <<ids[Len(ids)]>>), isMermaid)

mermaidTags(proj) ==
    LET hasComment(id) == filterComment(proj.reflections[id].comment)
        hasTags(id) == filterCommentTags(Value(proj.reflections[id].comment).tags)
        isMermaid(ref) == isMermaidCommentTag(tagAt(proj, ref))
        ids == SelectSeq(SelectSeq(values(proj.reflections), hasComment), hasTags)
    IN SelectSeq(concatTags(proj, ids), isMermaid)

\* -------------------------------------------- classOrInterfaceReflections

classOrInterfaceReflections(proj) ==
    LET isClassOrInterface(id) ==
            proj.reflections[id].kind \in {"Class", "Interface"}
    IN IF IsDefined(proj.children)
       THEN SelectSeq(Value(proj.children), isClassOrInterface)
       ELSE <<>>

\* -------------------------------------------------------- onResolveBegin

\* new Comment(): a comment without a tag list.
NewComment == [tags |-> Undefined]

\* The body of the first forEach for one reflection.  The result is the
\* reflection after it and whether the body threw: reading .tags of an
\* undefined comment is a TypeError.
attachClassDiagram(reflection) ==
    LET mermaidClassDiagram == drowMermaidClassDiagram(reflection)
        tagText_ == createMermaidTagText(<<"Class Diagram">>, mermaidClassDiagram)
        tag == [tagName |-> "mermaid", text |-> tagText_]
        comment == IF IsDefined(reflection.comment)
                   THEN Defined(NewComment)
                   ELSE reflection.comment
    IN IF ~IsDefined(comment)
       THEN [reflection |-> reflection, threw |-> TRUE]
       ELSE [reflection |->
                [reflection EXCEPT !.comment =
                    Defined([Value(comment) EXCEPT !.tags =
                        IF IsDefined(Value(comment).tags)
                        THEN Defined(Append(Value(Value(comment).tags), tag))
                        ELSE Defined(<<tag>>)])],
             threw |-> FALSE]

\* The first forEach: the reflections in turn, stopping at a throw.
RECURSIVE attachAll(_, _)
attachAll(proj, ids) ==
    IF ids = <<>> THEN [project |-> proj, threw |-> FALSE]
    ELSE LET r == attachClassDiagram(proj.reflections[Head(ids)])
         IN IF r.threw THEN [project |-> proj, threw |-> TRUE]
            ELSE attachAll([proj EXCEPT !.reflections[Head(ids)] = r.reflection],
                           Tail(ids))

\* The body of the second forEach: tag.text = convertCommentTagText(tag.text).
convertTag(proj, ref) ==
    LET r == proj.reflections[ref.reflection]
        tags == Value(Value(r.comment).tags)
        tag == tags[ref.index]
    IN [proj EXCEPT !.reflections[ref.reflection].comment =
           Defined([Value(r.comment) EXCEPT !.tags =
               Defined([tags EXCEPT ![ref.index] =
                   [tag EXCEPT !.text = convertCommentTagText(tag.text)]])])]

RECURSIVE convertAll(_, _)
convertAll(proj, refs) ==
    IF refs = <<>> THEN proj
    ELSE convertAll(convertTag(proj, Head(refs)), Tail(refs))

\* ------------------------------------------------------------- state

VARIABLES
    mermaidVersion,   \* the mermaidVersion option of the plugin
    tagText,          \* a tag text handed to convertCommentTagText
    tagOut,           \* its result, undefined before the call
    html,             \* a page handed to convertPageContents
    out,              \* convertPageContents applied `applications` times to html
    applications,
    page0,            \* the page event as the renderer raised it
    page,             \* the page event now
    pagePc,           \* "rendered" before PageEvent.END is dispatched, "ended" after
    project0,         \* context.project as the converter built it
    project,          \* context.project now
    pc                \* "converted" before Converter.EVENT_RESOLVE_BEGIN,
                      \* "resolved" after the handler returned, "threw" after it threw

vars ==
    <<mermaidVersion, tagText, tagOut, html, out, applications, page0, page, pagePc,
      project0, project, pc>>

\* ------------------------------------------------------------- inputs

\* Characters of a tag text.
TextChars == {"a", "b", NL}

TagTexts == SeqsUpTo(TextChars, MaxTextLen)

\* Characters of a page: some text, and the closing body tag.
HtmlChars == {"x", BodyClose}

Htmls == SeqsUpTo(HtmlChars, MaxHtmlLen)

\* Values of the mermaidVersion option: the default, and strings that hold
\* a dollar sign (the option is any string; it is not validated).
Versions ==
    {DefaultVersion, <<"$", "&">>, <<"$", Backquote>>, <<"$", Quote>>, <<"$", "$">>}

\* ------------------------------------------------ the text specification

textVars == <<tagText, tagOut>>

pageVars == <<html, out, applications, page0, page, pagePc>>

projectVars == <<project0, project, pc>>

TextIdle == tagText = <<>> /\ tagOut = Undefined

PageIdle ==
    /\ html = <<>>
    /\ out = <<>>
    /\ applications = 0
    /\ page0 = [contents |-> Undefined]
    /\ page = [contents |-> Undefined]
    /\ pagePc = "idle"

ProjectIdle ==
    /\ project0 = [reflections |-> <<>>, children |-> Undefined]
    /\ project = project0
    /\ pc = "idle"

InitText ==
    /\ mermaidVersion = DefaultVersion
    /\ tagText \in TagTexts
    /\ tagOut = Undefined
    /\ PageIdle
    /\ ProjectIdle

CallConvertCommentTagText ==
    /\ tagOut = Undefined
    /\ tagOut' = Defined(convertCommentTagText(tagText))
    /\ UNCHANGED <<mermaidVersion, tagText, pageVars, projectVars>>

NextText == CallConvertCommentTagText

SpecText == InitText /\ [][NextText]_vars

\* ------------------------------------------------ the page specification

InitPage ==
    /\ mermaidVersion \in Versions
    /\ TextIdle
    /\ html \in Htmls
    /\ out = html
    /\ applications = 0
    /\ page0 \in {[contents |-> Undefined], [contents |-> Defined(html)]}
    /\ page = page0
    /\ pagePc = "rendered"
    /\ ProjectIdle

\* A plausible slip: the guard inverted, as it is at line 169.  Only
\* undefined contents are converted, and convertPageContents(undefined)
\* is undefined: the regular expression does not match "undefined".
onPageEnd_inverted ==
    /\ pagePc = "rendered"
    /\ page' = IF ~IsDefined(page.contents)
               THEN [page EXCEPT !.contents = Undefined]
               ELSE page
    /\ pagePc' = "ended"
    /\ UNCHANGED <<mermaidVersion, textVars, html, out, applications, page0, projectVars>>

\* PageEvent.END: the renderer dispatches it once for a page.
onPageEnd ==
    /\ pagePc = "rendered"
    /\ page' = IF IsDefined(page.contents)
               THEN [page EXCEPT !.contents =
                        Defined(convertPageContents(Value(page.contents), mermaidVersion))]
               ELSE page
    /\ pagePc' = "ended"
    /\ UNCHANGED <<mermaidVersion, textVars, html, out, applications, page0, projectVars>>

\* convertPageContents applied to its own output.
CallConvertPageContents ==
    /\ applications < MaxApplications
    /\ out' = convertPageContents(out, mermaidVersion)
    /\ applications' = applications + 1
    /\ UNCHANGED <<mermaidVersion, textVars, html, page0, page, pagePc, projectVars>>

NextPage == onPageEnd \/ CallConvertPageContents

SpecPage == InitPage /\ [][NextPage]_vars

\* ------------------------------------------- the converter specification

\* Tags the comment parser hands over.
TagChoices ==
    {[tagName |-> "mermaid", text |-> <<"A", NL, "B">>],
     [tagName |-> "other", text |-> <<"x">>]}

\* A reflection has no comment, a comment without a tag list, or a comment
\* with a tag list.
CommentChoices ==
    {Undefined, Defined([tags |-> Undefined])}
    \cup {Defined([tags |-> Defined(ts)]) : ts \in SeqsUpTo(TagChoices, MaxTags)}

Members ==
    <<[kind |-> "Method", name |-> "run", flags |-> "private", type |-> Undefined],
      [kind |-> "Property", name |-> "size", flags |-> "protected",
       type |-> Defined("number")],
      [kind |-> "Constructor", name |-> "constructor", flags |-> "none",
       type |-> Undefined],
      [kind |-> "Property", name |-> "id", flags |-> "public", type |-> Undefined]>>

\* Kinds of reflection: a class with members, an interface without, a
\* function, all children of the project, and a class inside a module.
ReflectionShapes ==
    {[kind |-> "Class", name |-> "Foo", topLevel |-> TRUE, children |-> Defined(Members)],
     [kind |-> "Interface", name |-> "Bar", topLevel |-> TRUE, children |-> Undefined],
     [kind |-> "Function", name |-> "baz", topLevel |-> TRUE, children |-> Undefined],
     [kind |-> "Class", name |-> "Inner", topLevel |-> FALSE, children |-> Undefined]}

ReflectionChoices ==
    {[kind |-> sh.kind, name |-> sh.name, topLevel |-> sh.topLevel,
      children |-> sh.children, comment |-> c] :
        sh \in ReflectionShapes, c \in CommentChoices}

\* project.children: the top-level reflections, undefined without one.
childrenOf(reflections) ==
    LET isTopLevel(id) == reflections[id].topLevel
        ids == SelectSeq(idsUpTo(Cardinality(DOMAIN reflections)), isTopLevel)
    IN IF ids = <<>> THEN Undefined ELSE Defined(ids)

Init ==
    /\ mermaidVersion = DefaultVersion
    /\ TextIdle
    /\ PageIdle
    /\ \E reflections \in [1..NumReflections -> ReflectionChoices] :
           project0 = [reflections |-> reflections,
                       children |-> childrenOf(reflections)]
    /\ project = project0
    /\ pc = "converted"

\* Converter.EVENT_RESOLVE_BEGIN: the converter dispatches it once.
onResolveBegin ==
    /\ pc = "converted"
    /\ LET attached == attachAll(project, classOrInterfaceReflections(project))
       IN IF attached.threw
          THEN /\ project' = attached.project
               /\ pc' = "threw"
          ELSE /\ project' = convertAll(attached.project, mermaidTags(attached.project))
               /\ pc' = "resolved"
    /\ UNCHANGED <<mermaidVersion, textVars, pageVars, project0>>

Next == onResolveBegin

Spec == Init /\ [][Next]_vars

\* ------------------------------------------------------------ properties

\* Position of the first x in s; Len(s) + 1 when s holds no x.
FirstIndexOf(s, x) ==
    IF \E i \in 1..Len(s) : s[i] = x
    THEN CHOOSE i \in 1..Len(s) : s[i] = x /\ \A j \in 1..(i - 1) : s[j] # x
    ELSE Len(s) + 1

\* How often x occurs in s.
Occurrences(s, x) == Cardinality({i \in 1..Len(s) : s[i] = x})

\* The part of a text before its first newline, and the part after it.
TitleOf(T) == SubSeq(T, 1, FirstIndexOf(T, NL) - 1)

BodyOf(T) == SubSeq(T, FirstIndexOf(T, NL) + 1, Len(T))

\* C1: for every string T, convertCommentTagText(T) is '#### ' + title +
\* ' \n\n <div class="mermaid">' + body + '</div>', title the part of T
\* before its first newline (all of T without one), body everything after
\* that newline, verbatim (empty without one).
C1_TagTextFormat ==
    IsDefined(tagOut) =>
        Value(tagOut) =
            <<"#### ">> \o TitleOf(tagText)
            \o <<" ", "\n", "\n", " <div class=\"mermaid\">">>
            \o BodyOf(tagText) \o <<"</div>">>

\* A text of several lines, a newline in its body, has been converted.
C1_Witness ==
    /\ IsDefined(tagOut)
    /\ Occurrences(tagText, NL) >= 2
    /\ TitleOf(tagText) # <<>>
    /\ Occurrences(BodyOf(tagText), NL) >= 1

\* The bootstrap fragment as the documentation states it: the loader
\* script of the configured version, the initialization script, the
\* closing body tag.
LoaderScript(version) == <<LoaderOpen>> \o version \o <<LoaderClose>>

BootstrapFragment(version) ==
    LoaderScript(version) \o <<InitScript, BodyClose, FragmentTail>>

\* The positions of s where the sequence w starts.
StartsOf(s, w) ==
    {i \in 1..(Len(s) - Len(w) + 1) : SubSeq(s, i, i + Len(w) - 1) = w}

\* How many loader scripts a page holds: the openings of a script element
\* that loads the runtime from unpkg.com are counted, whatever the version
\* that follows.
LoaderCount(s) == Occurrences(s, LoaderOpen)

\* C2: for a page with a closing body tag, one application replaces only
\* the first closing body tag by the bootstrap fragment: the text before
\* and after it is unchanged, the loader script precedes the
\* reconstructed tag, and the page holds as many closing body tags as before.
C2_FirstMarkerReplaced ==
    (applications = 1 /\ BODY_CLOSINNG_TAG_test(html)) =>
        LET i == FirstIndexOf(html, BodyClose)
            before == SubSeq(html, 1, i - 1)
            after == SubSeq(html, i + 1, Len(html))
        IN /\ out = before \o BootstrapFragment(mermaidVersion) \o after
           /\ Occurrences(out, BodyClose) = Occurrences(html, BodyClose)
           /\ \E l \in StartsOf(out, LoaderScript(mermaidVersion)) :
                  l < FirstIndexOf(SubSeq(out, i, Len(out)), BodyClose) + i - 1

\* C3: a page without a closing body tag is returned unchanged, and no
\* loader script is added.
C3_NoMarkerIdentity ==
    (applications >= 1 /\ ~BODY_CLOSINNG_TAG_test(html)) =>
        /\ out = html
        /\ LoaderCount(out) = 0

\* A page with text and no closing body tag has gone through the function.
C3_Witness ==
    /\ applications = 1
    /\ html # <<>>
    /\ ~BODY_CLOSINNG_TAG_test(html)

\* C7: at PageEvent.END, contents that are present become
\* convertPageContents of the previous contents; absent contents stay
\* absent and the page is left as it was.
C7_PageEnd ==
    pagePc = "ended" =>
        IF IsDefined(page0.contents)
        THEN page.contents =
                 Defined(convertPageContents(Value(page0.contents), mermaidVersion))
        ELSE page = page0

\* A page whose contents hold a closing body tag has been through the
\* handler, and the handler changed it.
C7_Witness ==
    /\ pagePc = "ended"
    /\ IsDefined(page0.contents)
    /\ BODY_CLOSINNG_TAG_test(Value(page0.contents))
    /\ page # page0

\* C8: for a page with a closing body tag and no loader script, two
\* applications of convertPageContents leave exactly two loader scripts.
C8_TwoLoadersAfterTwo ==
    (applications = 2 /\ BODY_CLOSINNG_TAG_test(html) /\ LoaderCount(html) = 0) =>
        LoaderCount(out) = 2

\* The tag list of a reflection's comment; empty without a comment or
\* without a tag list.
TagsOf(proj, id) ==
    LET comment == proj.reflections[id].comment
    IN IF IsDefined(comment) /\ IsDefined(Value(comment).tags)
       THEN Value(Value(comment).tags)
       ELSE <<>>

ReflectionIds == DOMAIN project0.reflections

\* The references to the tags named 'mermaid' in the graph.
MermaidRefs(proj) ==
    UNION {{[reflection |-> id, index |-> i] :
               i \in {j \in 1..Len(TagsOf(proj, id)) :
                         TagsOf(proj, id)[j].tagName = "mermaid"}} :
           id \in DOMAIN proj.reflections}

\* The class and interface reflections among the children of the project.
IsClassOrInterfaceChild(id) ==
    /\ project0.reflections[id].topLevel
    /\ project0.reflections[id].kind \in {"Class", "Interface"}

\* C4: mermaidTags returns exactly the tags named 'mermaid' of the comments
\* of the graph, none omitted or duplicated, ordered by reflection and then
\* by place in the comment; reflections without a comment and comments
\* without a tag list contribute nothing.
C4_MermaidTagsExact ==
    LET r == mermaidTags(project)
    IN /\ {r[k] : k \in 1..Len(r)} = MermaidRefs(project)
       /\ Len(r) = Cardinality(MermaidRefs(project))
       /\ \A j, k \in 1..Len(r) :
              j < k =>
                  \/ r[j].reflection < r[k].reflection
                  \/ /\ r[j].reflection = r[k].reflection
                     /\ r[j].index < r[k].index

\* The handler has collected tags from two reflections, one of them
\* holding another tag before its mermaid tag.
C4_Witness ==
    /\ pc = "resolved"
    /\ \E a, b \in ReflectionIds :
           /\ a # b
           /\ \E k \in 1..Len(mermaidTags(project)) :
                  mermaidTags(project)[k].reflection = a
           /\ Len(TagsOf(project, b)) = 2
           /\ TagsOf(project, b)[1].tagName = "other"
           /\ TagsOf(project, b)[2].tagName = "mermaid"

\* C5: the plugin never aborts the build: onResolveBegin completes without
\* raising an error for every graph, reflections without a comment among them.
C5_NeverThrows == pc # "threw"

\* The text of the class diagram tag generated for a reflection.
GeneratedText(id) ==
    createMermaidTagText(<<"Class Diagram">>,
                         drowMermaidClassDiagram(project0.reflections[id]))

\* C6: after the handler every tag named 'mermaid' of the graph, the
\* generated ones among them, holds convertCommentTagText of its text
\* before, and every tag named 'mermaid' that was in the graph before is
\* among them.
C6_EachMermaidTagOnce ==
    pc = "resolved" =>
        /\ \A ref \in MermaidRefs(project0) :
               LET pre == TagsOf(project0, ref.reflection)
                   post == TagsOf(project, ref.reflection)
               IN /\ ref.index <= Len(post)
                  /\ post[ref.index].tagName = "mermaid"
                  /\ post[ref.index].text = convertCommentTagText(pre[ref.index].text)
        /\ \A ref \in MermaidRefs(project) :
               LET pre == TagsOf(project0, ref.reflection)
                   post == TagsOf(project, ref.reflection)
               IN post[ref.index].text =
                      convertCommentTagText(IF ref.index <= Len(pre)
                                            THEN pre[ref.index].text
                                            ELSE GeneratedText(ref.reflection))

\* C9: the generated tag is appended to the existing comment of a class or
\* interface child: the tags the comment held are still there, in their
\* order, followed by the generated tag.
C9_AppendToExisting ==
    pc = "resolved" =>
        \A id \in ReflectionIds :
            IsClassOrInterfaceChild(id) =>
                LET pre == TagsOf(project0, id)
                    post == TagsOf(project, id)
                IN /\ Len(post) = Len(pre) + 1
                   /\ \A i \in 1..Len(pre) :
                          /\ post[i].tagName = pre[i].tagName
                          /\ pre[i].tagName # "mermaid" => post[i] = pre[i]
                   /\ post[Len(post)].tagName = "mermaid"

\* C10: the handler touches only eligible tags: a tag not named 'mermaid'
\* keeps its name and text, and a reflection that is not a class or
\* interface child of the project keeps its comment and the length and
\* order of its tag list.
C10_OnlyEligibleTouched ==
    pc \in {"resolved", "threw"} =>
        /\ \A id \in ReflectionIds :
               \A i \in 1..Len(TagsOf(project, id)) :
                   TagsOf(project, id)[i].tagName # "mermaid" =>
                       /\ i <= Len(TagsOf(project0, id))
                       /\ TagsOf(project, id)[i] = TagsOf(project0, id)[i]
        /\ \A id \in ReflectionIds :
               ~IsClassOrInterfaceChild(id) =>
                   LET before == project0.reflections[id].comment
                       now == project.reflections[id].comment
                   IN /\ IsDefined(now) = IsDefined(before)
                      /\ IsDefined(now) =>
                             IsDefined(Value(now).tags) = IsDefined(Value(before).tags)
                      /\ Len(TagsOf(project, id)) = Len(TagsOf(project0, id))
                      /\ \A i \in 1..Len(TagsOf(project0, id)) :
                             /\ TagsOf(project, id)[i].tagName
                                    = TagsOf(project0, id)[i].tagName
                             /\ TagsOf(project0, id)[i].tagName # "mermaid" =>
                                    TagsOf(project, id)[i] = TagsOf(project0, id)[i]

\* The handler has run over a graph with a class child and with a
\* reflection of another kind whose comment holds both kinds of tag, and
\* has rewritten the mermaid tag of the latter.
C10_Witness ==
    /\ pc = "resolved"
    /\ \E a, b \in ReflectionIds :
           /\ IsClassOrInterfaceChild(a)
           /\ ~IsClassOrInterfaceChild(b)
           /\ \E i, j \in 1..Len(TagsOf(project0, b)) :
                  /\ TagsOf(project0, b)[i].tagName = "other"
                  /\ TagsOf(project0, b)[j].tagName = "mermaid"
                  /\ TagsOf(project, b)[j].text # TagsOf(project0, b)[j].text

====
